---- MODULE Spec2Model ----
(***************************************************************************)
(* FrameCheck front end: the App shell (frontend/src/App.jsx) mounts one   *)
(* of three tool components at a time -- ImageUploader ("analysis"),       *)
(* PhotographerSimilarity ("similarity"), CropSuggestion ("crop").  Each   *)
(* component keeps its selection, preview object URLs, an in-flight flag,  *)
(* the last result and the last error in React state.                      *)
(*                                                                         *)
(* One step of the model is one browser event handled to completion: the   *)
(* handler, the re-render it causes and the effect cleanups that re-render *)
(* runs.  Only the mounted component has state; an unmounted component's   *)
(* state is gone, so the component variables then hold the useState        *)
(* initial values the next mount starts from.                              *)
(***************************************************************************)
EXTENDS Integers, Sequences, FiniteSets, TLC

\* ------------------------------------------------------------------ bounds
\* longest similar_photographers list of a similarity payload
MaxEntries == 4
\* longest list of files offered in one drop/selection event
MaxDrop == 2
\* object URLs the browser hands out in one run
MaxUrls == 3
\* requests in flight at one time, those of unmounted components included
MaxRequests == 2

\* ------------------------------------------------------------- value sets
\* undefined / null where a string is expected
Null == "null"
\* null in a state variable that otherwise holds a file, a URL, a payload or
\* an error text; a value v that is present is held as <<v>>
Absent == <<>>

Tools == {"analysis", "similarity", "crop"}
Pages == {"home", "features", "about"}
\* values setActiveTab can receive: the three tools, and 'features' from
\* About.jsx line 23 (onNavigateToTool('features'))
Tabs == Tools \cup {"features"}

\* The File objects a user can offer.  1, 2: images; 3: an .avif file whose
\* declared type the browser leaves empty; 4: a text file.
Candidates == {1, 2, 3, 4}

\* six further images, offered together in one drop
SixImages == <<5, 6, 7, 8, 9, 10>>

MimeType(f) ==
    CASE f = 2 -> "image/jpeg"
      [] f = 3 -> ""
      [] f = 4 -> "text/plain"
      [] OTHER -> "image/png"

Extension(f) ==
    CASE f = 2 -> ".jpg"
      [] f = 3 -> ".avif"
      [] f = 4 -> ".txt"
      [] OTHER -> ".png"

\* the accept option of each component's useDropzone call
AcceptedExtensions(tool) ==
    IF tool = "crop"
    THEN {".jpeg", ".jpg", ".png", ".gif", ".bmp", ".webp", ".avif"}
    ELSE {".jpeg", ".jpg", ".png", ".gif", ".bmp", ".webp"}

\* faulty variant of Accepts: a dropzone without the accept option
Accepts_anything(tool, f) == TRUE

\* 'image/*' matches on the declared type, the listed extensions on the name
Accepts(tool, f) ==
    \/ MimeType(f) \in {"image/png", "image/jpeg"}
    \/ Extension(f) \in AcceptedExtensions(tool)

\* multiple / maxFiles options of each useDropzone call (0: option not given)
Multiple(tool) == tool = "similarity"
DropzoneMaxFiles(tool) == IF tool = "similarity" THEN 4 ELSE 0

\* the non-empty lists of at most n distinct files of S
RECURSIVE ListsUpTo(_, _)
ListsUpTo(S, n) ==
    IF n = 0 THEN {}
    ELSE LET shorter == ListsUpTo(S, n - 1) \cup {<<>>}
         IN  {Append(s, x) : s \in shorter, x \in S} \ 
                {t \in {Append(s, x) : s \in shorter, x \in S} :
                    \E i, j \in DOMAIN t : i # j /\ t[i] = t[j]}

\* what one drop or file-dialog selection can offer
Drops == ListsUpTo(Candidates, MaxDrop) \cup {SixImages}

\* acceptedFiles as useDropzone passes it to onDrop: the offered files that
\* match accept; when there are more of them than the dropzone allows, all of
\* them are rejected as too many.
AcceptedFiles(tool, drop) ==
    LET matched == SelectSeq(drop, LAMBDA f : Accepts(tool, f))
        tooMany == \/ ~Multiple(tool) /\ Len(matched) > 1
                   \/ /\ Multiple(tool)
                      /\ DropzoneMaxFiles(tool) >= 1
                      /\ Len(matched) > DropzoneMaxFiles(tool)
    IN  IF tooMany THEN <<>> ELSE matched

\* Array.prototype.slice(0, n)
Slice(s, n) == IF Len(s) <= n THEN s ELSE SubSeq(s, 1, n)

\* ------------------------------------------------------------------ state
VARIABLES
    currentPage,    \* App: useState('home')
    activeTab,      \* App: useState('analysis')
    files,          \* component: file (<<>> for null) / files
    previewUrls,    \* component: previewUrl (<<>> for null) / previewUrls
    isUploading,    \* component: isUploading / isProcessing
    results,        \* component: analysisResults / similarityResults / cropResults
    error,          \* component: error
    nextUrl,        \* browser: the next object URL createObjectURL returns
    liveUrls,       \* browser: object URLs created and not revoked
    revokes,        \* browser: how often revokeObjectURL was called per URL
    sessionStart,   \* the first object URL not older than the mounted component
                    \* (kept for the properties; no handler reads it)
    requests,       \* network: the mounted component's posts that have not come back
    abandoned,      \* network: posts of unmounted components that have not come back
    lastEvent,      \* the handler that ran last
    offered,        \* the files the last event offered to the dropzone, when the
                    \* last event was a drop (kept for the properties)
    response,       \* what the request came back with and the response.data
                    \* the handler read, when the last event was a request
                    \* coming back (kept for the properties)
    apiUrl,         \* build: import.meta.env.VITE_API_URL
    rendered        \* what the results block of the mounted component rendered
                    \* from results (<<>>: not rendered yet)

vars == <<currentPage, activeTab, files, previewUrls, isUploading, results,
          error, nextUrl, liveUrls, revokes, sessionStart, requests, abandoned,
          lastEvent, offered, response, apiUrl, rendered>>

appVars == <<currentPage, activeTab>>
componentVars == <<files, previewUrls, isUploading, results, error>>
browserVars == <<nextUrl, liveUrls, revokes>>
envVars == <<apiUrl, rendered>>

\* the tool component App renders, "none" on the Features and About pages
\* and when activeTab names no tool
Mounted ==
    IF currentPage = "home" /\ activeTab \in Tools THEN activeTab ELSE "none"

MountedAfter(page, tab) ==
    IF page = "home" /\ tab \in Tools THEN tab ELSE "none"


\* ------------------------------------------------------- browser and network
Range(s) == {s[i] : i \in DOMAIN s}

Occurrences(s, x) == Cardinality({i \in DOMAIN s : s[i] = x})

\* faulty variant of CreatedUrls: the URLs stored in the reverse of the order
\* of the files
CreatedUrls_reversed(newFiles) ==
    [i \in 1..Len(newFiles) |-> nextUrl + Len(newFiles) - i]

\* URL.createObjectURL called once per file of newFiles, in order
CreatedUrls(newFiles) == [i \in 1..Len(newFiles) |-> nextUrl + i - 1]

\* the browser's URL store after createObjectURL returned `created` and
\* revokeObjectURL was called on each element of `revoked`
BrowserAfter(created, revoked) ==
    /\ nextUrl' = nextUrl + Len(created)
    /\ liveUrls' = (liveUrls \cup Range(created)) \ Range(revoked)
    /\ revokes' = [u \in DOMAIN revokes |-> revokes[u] + Occurrences(revoked, u)]

\* what a request can come back with
Messages == {Null, "unreadable image"}
Details == {Null, "", "unreadable image"}

Outcomes ==
    [kind : {"success"}, message : {Null}, detail : {Null}]
    \cup [kind : {"failure"}, message : Messages, detail : {Null}]
    \cup [kind : {"rejected"}, message : {"Network Error"}, detail : Details]
    \cup [kind : {"malformed"},
          message : {"Cannot read properties of undefined"}, detail : {Null}]

\* response.data of a fulfilled post: the service reports on the files the
\* request carried
ResponseData(req, outcome) ==
    IF outcome.kind = "success"
    THEN [success |-> TRUE, message |-> Null, processed_files |-> req.files]
    ELSE [success |-> FALSE, message |-> outcome.message,
          processed_files |-> <<>>]

\* what `response` records of a request that came back: only a fulfilled post
\* has a response.data
Received(outcome, data) ==
    <<[outcome |-> outcome,
       data |-> IF outcome.kind \in {"success", "failure"} THEN <<data>>
                ELSE Absent]>>

\* JavaScript: prefix + value, where undefined prints as "undefined"; the
\* text is kept as its two parts
Concat(prefix, value) ==
    <<<<prefix, IF value = Null THEN "undefined" ELSE value>>>>

\* JavaScript: a || b on strings and undefined
OrElse(a, b) == IF a = Null \/ a = "" THEN b ELSE a

\* faulty variant of CaughtError: the catch block reading error.message only
CaughtError_ignoresDetail(prefix, outcome) == Concat(prefix, outcome.message)

\* the argument of setError in a catch block:
\* prefix + (error.response?.data?.detail || error.message)
CaughtError(prefix, outcome) ==
    IF outcome.kind = "rejected"
    THEN Concat(prefix, OrElse(outcome.detail, outcome.message))
    ELSE Concat(prefix, outcome.message)

\* the text each component puts before response.data.message when the service
\* answers success: false
FailurePrefix(tool) ==
    CASE tool = "analysis" -> "Analysis failed: "
      [] tool = "similarity" -> "Similarity analysis failed: "
      [] OTHER -> "Crop suggestion failed: "

\* the text each component puts before the caught error in its catch block
CatchPrefix(tool) ==
    CASE tool = "analysis" -> "Upload failed: "
      [] tool = "similarity" -> "Upload failed: "
      [] OTHER -> "Crop suggestion failed: "

\* the values import.meta.env.VITE_API_URL can have in a build: not set, set
\* to the empty string, set to an address
ApiUrls == {Null, "", "https://api.framecheck.app"}

LocalAddress == "http://localhost:8000"

\* the first argument of axios.post, kept as base address and path:
\* ImageUploader and CropSuggestion build it from VITE_API_URL,
\* PhotographerSimilarity passes a literal
RequestUrl(tool) ==
    CASE tool = "analysis" -> <<OrElse(apiUrl, LocalAddress), "/analyze-image/">>
      [] tool = "similarity" ->
            <<LocalAddress, "/find-similar-photographers/">>
      [] OTHER -> <<OrElse(apiUrl, LocalAddress), "/suggest-crop/">>

\* axios.post(url, formData) by the mounted component: formData holds
\* `payload`; the request stays in `requests` until it comes back.  reset,
\* replaced: the component's reset handler ran, its onDrop accepted new
\* files, since the request was posted (kept for the properties; no
\* handler reads them).
Post(payload) ==
    Append(requests, [url |-> RequestUrl(Mounted), files |-> payload,
                      reset |-> FALSE, replaced |-> FALSE])

\* requests in flight, whoever posted them
InFlight == Len(requests) + abandoned

\* the requests of the mounted component that have not come back
Outstanding == DOMAIN requests

\* `requests` once request i has come back
Settle(i) ==
    [j \in 1..(Len(requests) - 1) |->
        IF j < i THEN requests[j] ELSE requests[j + 1]]

\* `requests` once the mounted component's reset handler has run
AfterReset == [i \in DOMAIN requests |-> [requests[i] EXCEPT !.reset = TRUE]]

\* `requests` once the mounted component's onDrop has accepted files
AfterIntake ==
    [i \in DOMAIN requests |-> [requests[i] EXCEPT !.replaced = TRUE]]

\* the events in which a request of the mounted component comes back, named
\* by what it comes back with
SettledEvents == {"success", "failure", "rejected", "malformed"}

\* the events that are a click on the upload / process button
SubmitEvents == {"handleUpload", "uploadDisabled"}

\* The session status the components display: the button shows its busy label
\* while isUploading; otherwise the error block and the results block are
\* rendered from error and results.
Status ==
    IF isUploading THEN "uploading"
    ELSE IF error # Absent THEN "failed"
    ELSE IF results # Absent THEN "succeeded"
    ELSE "idle"

\* object URLs created by the mounted component and not revoked
SessionLive == {u \in liveUrls : u >= sessionStart}

\* the upload / process button is rendered and enabled, and its handler
\* passes its early return
SubmitEnabled ==
    /\ Mounted \in Tools
    /\ previewUrls # <<>>
    /\ ~isUploading
    /\ files # <<>>

\* faulty variant of abandonedSettled: the components keep results and error
\* in one store they share
abandonedSettled_sharedStore ==
    /\ abandoned > 0
    /\ abandoned' = abandoned - 1
    /\ \E outcome \in Outcomes :
          IF outcome.kind = "success"
          THEN /\ results' = <<ResponseData([files |-> <<>>], outcome)>>
               /\ error' = Absent
          ELSE /\ error' = CaughtError(CatchPrefix("analysis"), outcome)
               /\ UNCHANGED results
    /\ lastEvent' = "abandonedSettled"
    /\ offered' = <<>>
    /\ response' = Absent
    /\ UNCHANGED envVars
    /\ UNCHANGED <<appVars, sessionStart, files, previewUrls, isUploading,
                   browserVars, requests>>

\* a request of an unmounted component comes back: its setters belong to a
\* component that no longer exists and change nothing
abandonedSettled ==
    /\ abandoned > 0
    /\ abandoned' = abandoned - 1
    /\ lastEvent' = "abandonedSettled"
    /\ offered' = <<>>
    /\ response' = Absent
    /\ UNCHANGED envVars
    /\ UNCHANGED <<appVars, sessionStart, componentVars, browserVars, requests>>

\* ------------------------------------------------------------ ImageUploader
\* the cleanup of the effect on [previewUrl]: the URLs it revokes when
\* previewUrl changes or the component unmounts
ImageUploader_cleanup == previewUrls

ImageUploader_onDrop ==
    /\ Mounted = "analysis"
    /\ \E drop \in Drops :
          LET acceptedFiles == AcceptedFiles("analysis", drop)
          IN  /\ IF acceptedFiles # <<>>
                 THEN LET uploadedFile == <<acceptedFiles[1]>>
                          url == CreatedUrls(uploadedFile)
                      IN  /\ nextUrl + Len(url) - 1 <= MaxUrls
                          /\ files' = uploadedFile
                          /\ previewUrls' = url
                          /\ results' = Absent
                          /\ error' = Absent
                          /\ BrowserAfter(url, ImageUploader_cleanup)
                          /\ requests' = AfterIntake
                          /\ UNCHANGED isUploading
                 ELSE UNCHANGED <<componentVars, browserVars, requests>>
              /\ lastEvent' = "onDrop"
              /\ offered' = drop
              /\ response' = Absent
              /\ UNCHANGED envVars
    /\ UNCHANGED <<appVars, abandoned, sessionStart>>

\* faulty variant of ImageUploader_handleUpload: the upload button without
\* its disabled attribute
ImageUploader_handleUpload_neverDisabled ==
    /\ Mounted = "analysis"
    /\ previewUrls # <<>>
    /\ IF files = <<>>
       THEN UNCHANGED <<isUploading, requests>>
       ELSE /\ InFlight < MaxRequests
            /\ isUploading' = TRUE
            /\ requests' = Post(<<files[1]>>)
    /\ lastEvent' = "handleUpload"
    /\ offered' = <<>>
    /\ response' = Absent
    /\ UNCHANGED envVars
    /\ UNCHANGED <<appVars, abandoned, sessionStart, files, previewUrls, results,
                   error, browserVars>>

\* faulty variant of ImageUploader_handleUploadCall: the handler clearing the
\* stored result and error before it posts
ImageUploader_handleUploadCall_clearsOutcome ==
    /\ IF files = <<>>
       THEN UNCHANGED <<isUploading, requests, results, error>>
       ELSE /\ InFlight < MaxRequests
            /\ isUploading' = TRUE
            /\ results' = Absent
            /\ error' = Absent
            /\ requests' = Post(<<files[1]>>)
    /\ UNCHANGED <<appVars, abandoned, sessionStart, files, previewUrls,
                   browserVars>>

\* handleUpload up to the await: `if (!file) return;`, setIsUploading(true),
\* the post of the form data
ImageUploader_handleUploadCall ==
    /\ IF files = <<>>
       THEN UNCHANGED <<isUploading, requests>>
       ELSE /\ InFlight < MaxRequests
            /\ isUploading' = TRUE
            /\ requests' = Post(<<files[1]>>)
    /\ UNCHANGED <<appVars, abandoned, sessionStart, files, previewUrls, results,
                   error, browserVars>>

\* a click on the upload button, which is rendered while previewUrl is set
\* and disabled while isUploading
ImageUploader_handleUpload ==
    /\ Mounted = "analysis"
    /\ previewUrls # <<>>
    /\ ~isUploading
    /\ ImageUploader_handleUploadCall
    /\ lastEvent' = "handleUpload"
    /\ offered' = <<>>
    /\ response' = Absent
    /\ UNCHANGED envVars

\* handleUpload called while the upload button is not rendered (by a test of
\* the handler; no element of the page does it)
ImageUploader_handleUploadDirect ==
    /\ Mounted = "analysis"
    /\ previewUrls = <<>>
    /\ ImageUploader_handleUploadCall
    /\ lastEvent' = "handleUpload"
    /\ offered' = <<>>
    /\ response' = Absent
    /\ UNCHANGED envVars

\* a click on the upload button while it is disabled: no handler runs
ImageUploader_uploadDisabled ==
    /\ Mounted = "analysis"
    /\ previewUrls # <<>>
    /\ isUploading
    /\ lastEvent' = "uploadDisabled"
    /\ offered' = <<>>
    /\ response' = Absent
    /\ UNCHANGED envVars
    /\ UNCHANGED <<appVars, abandoned, sessionStart, componentVars, browserVars, requests>>

\* faulty variant of ImageUploader_handleUploadSettled: the success branch
\* without setError(null)
ImageUploader_handleUploadSettled_keepsError ==
    /\ Mounted = "analysis"
    /\ \E i \in Outstanding, outcome \in Outcomes :
          LET data == ResponseData(requests[i], outcome)
          IN  /\ CASE outcome.kind = "success" ->
                        /\ results' = <<data>>
                        /\ UNCHANGED error
                   [] outcome.kind = "failure" ->
                        /\ error' = Concat(FailurePrefix("analysis"),
                                           data.message)
                        /\ UNCHANGED results
                   [] OTHER ->
                        /\ error' = CaughtError(CatchPrefix("analysis"),
                                                outcome)
                        /\ UNCHANGED results
              /\ isUploading' = FALSE
              /\ requests' = Settle(i)
              /\ lastEvent' = outcome.kind
              /\ offered' = <<>>
              /\ response' = Received(outcome, data)
              /\ UNCHANGED envVars
    /\ UNCHANGED <<appVars, abandoned, sessionStart, files, previewUrls, browserVars>>

\* handleUpload from the await on: try / catch / finally
ImageUploader_handleUploadSettled ==
    /\ Mounted = "analysis"
    /\ \E i \in Outstanding, outcome \in Outcomes :
          LET data == ResponseData(requests[i], outcome)
          IN  /\ CASE outcome.kind = "success" ->
                        /\ results' = <<data>>
                        /\ error' = Absent
                   [] outcome.kind = "failure" ->
                        /\ error' = Concat(FailurePrefix("analysis"),
                                           data.message)
                        /\ UNCHANGED results
                   [] OTHER ->
                        /\ error' = CaughtError(CatchPrefix("analysis"),
                                                outcome)
                        /\ UNCHANGED results
              /\ isUploading' = FALSE
              /\ requests' = Settle(i)
              /\ lastEvent' = outcome.kind
              /\ offered' = <<>>
              /\ response' = Received(outcome, data)
              /\ UNCHANGED envVars
    /\ UNCHANGED <<appVars, abandoned, sessionStart, files, previewUrls, browserVars>>

\* the reset button's onClick; the button is inside the results block.  The
\* handler stops at setDeskewResults, which the component does not define:
\* the three updates before it are applied, setError(null) is not reached.
ImageUploader_resetCall ==
    /\ files' = <<>>
    /\ previewUrls' = <<>>
    /\ results' = Absent
    /\ BrowserAfter(<<>>, ImageUploader_cleanup)
    /\ requests' = AfterReset
    /\ UNCHANGED <<appVars, abandoned, sessionStart, isUploading, error>>

ImageUploader_reset ==
    /\ Mounted = "analysis"
    /\ results # Absent
    /\ ImageUploader_resetCall
    /\ lastEvent' = "reset"
    /\ offered' = <<>>
    /\ response' = Absent
    /\ UNCHANGED envVars

\* the same onClick run once more, right after it ran (by a test of the
\* handler: the click removed the results block and with it the button)
ImageUploader_resetAgain ==
    /\ Mounted = "analysis"
    /\ lastEvent \in {"reset", "resetAgain"}
    /\ ImageUploader_resetCall
    /\ lastEvent' = "resetAgain"
    /\ offered' = <<>>
    /\ response' = Absent
    /\ UNCHANGED envVars

\* --------------------------------------------------- PhotographerSimilarity
\* acceptedFiles.slice(0, 4)
SimilarityLimit == 4

\* the cleanup of the effect on [previewUrls]
PhotographerSimilarity_cleanup == previewUrls

\* the files a component keeps of one drop at most: ImageUploader and
\* CropSuggestion keep acceptedFiles[0], PhotographerSimilarity
\* acceptedFiles.slice(0, 4)
MaxFilesOf(tool) == IF tool = "similarity" THEN SimilarityLimit ELSE 1

\* faulty variant of PhotographerSimilarity_onDrop: the accepted files are
\* added to the selection
PhotographerSimilarity_onDrop_additive ==
    /\ Mounted = "similarity"
    /\ \E drop \in Drops :
          LET acceptedFiles == AcceptedFiles("similarity", drop)
              newFiles == Slice(acceptedFiles, SimilarityLimit)
              urls == CreatedUrls(newFiles)
          IN  /\ nextUrl + Len(urls) - 1 <= MaxUrls
              /\ files' = files \o newFiles
              /\ previewUrls' = previewUrls \o urls
              /\ results' = Absent
              /\ error' = Absent
              /\ BrowserAfter(urls, <<>>)
              /\ requests' = IF newFiles # <<>> THEN AfterIntake ELSE requests
              /\ lastEvent' = "onDrop"
              /\ offered' = drop
              /\ response' = Absent
              /\ UNCHANGED envVars
    /\ UNCHANGED <<appVars, abandoned, sessionStart, isUploading>>

PhotographerSimilarity_onDrop ==
    /\ Mounted = "similarity"
    /\ \E drop \in Drops :
          LET acceptedFiles == AcceptedFiles("similarity", drop)
              newFiles == Slice(acceptedFiles, SimilarityLimit)
              urls == CreatedUrls(newFiles)
          IN  /\ nextUrl + Len(urls) - 1 <= MaxUrls
              /\ files' = newFiles
              /\ previewUrls' = urls
              /\ results' = Absent
              /\ error' = Absent
              /\ BrowserAfter(urls, PhotographerSimilarity_cleanup)
              /\ requests' = IF newFiles # <<>> THEN AfterIntake ELSE requests
              /\ lastEvent' = "onDrop"
              /\ offered' = drop
              /\ response' = Absent
              /\ UNCHANGED envVars
    /\ UNCHANGED <<appVars, abandoned, sessionStart, isUploading>>

\* faulty variant of PhotographerSimilarity_handleUpload: only the first file
\* is appended to the form data
PhotographerSimilarity_handleUpload_firstFileOnly ==
    /\ Mounted = "similarity"
    /\ previewUrls # <<>>
    /\ ~isUploading
    /\ IF Len(files) = 0
       THEN UNCHANGED <<isUploading, requests>>
       ELSE /\ InFlight < MaxRequests
            /\ isUploading' = TRUE
            /\ requests' = Post(<<files[1]>>)
    /\ lastEvent' = "handleUpload"
    /\ offered' = <<>>
    /\ response' = Absent
    /\ UNCHANGED envVars
    /\ UNCHANGED <<appVars, abandoned, sessionStart, files, previewUrls, results,
                   error, browserVars>>

\* handleUpload up to the await: `if (files.length === 0) return;`,
\* setIsUploading(true), the post of the form data
PhotographerSimilarity_handleUploadCall ==
    /\ IF Len(files) = 0
       THEN UNCHANGED <<isUploading, requests>>
       ELSE /\ InFlight < MaxRequests
            /\ isUploading' = TRUE
            /\ requests' = Post(files)
    /\ UNCHANGED <<appVars, abandoned, sessionStart, files, previewUrls, results,
                   error, browserVars>>

\* a click on the upload button, which is rendered while previewUrls is not
\* empty and disabled while isUploading
PhotographerSimilarity_handleUpload ==
    /\ Mounted = "similarity"
    /\ previewUrls # <<>>
    /\ ~isUploading
    /\ PhotographerSimilarity_handleUploadCall
    /\ lastEvent' = "handleUpload"
    /\ offered' = <<>>
    /\ response' = Absent
    /\ UNCHANGED envVars

\* handleUpload called while the upload button is not rendered
PhotographerSimilarity_handleUploadDirect ==
    /\ Mounted = "similarity"
    /\ previewUrls = <<>>
    /\ PhotographerSimilarity_handleUploadCall
    /\ lastEvent' = "handleUpload"
    /\ offered' = <<>>
    /\ response' = Absent
    /\ UNCHANGED envVars

PhotographerSimilarity_uploadDisabled ==
    /\ Mounted = "similarity"
    /\ previewUrls # <<>>
    /\ isUploading
    /\ lastEvent' = "uploadDisabled"
    /\ offered' = <<>>
    /\ response' = Absent
    /\ UNCHANGED envVars
    /\ UNCHANGED <<appVars, abandoned, sessionStart, componentVars, browserVars, requests>>

\* faulty variant of PhotographerSimilarity_handleUploadSettled:
\* setIsUploading(false) at the end of the try block instead of in finally
PhotographerSimilarity_handleUploadSettled_noFinally ==
    /\ Mounted = "similarity"
    /\ \E i \in Outstanding, outcome \in Outcomes :
          LET data == ResponseData(requests[i], outcome)
          IN  /\ CASE outcome.kind = "success" ->
                        /\ results' = <<data>>
                        /\ error' = Absent
                        /\ isUploading' = FALSE
                   [] outcome.kind = "failure" ->
                        /\ error' = Concat(FailurePrefix("similarity"),
                                           data.message)
                        /\ UNCHANGED results
                        /\ isUploading' = FALSE
                   [] OTHER ->
                        /\ error' = CaughtError(CatchPrefix("similarity"),
                                                outcome)
                        /\ UNCHANGED <<results, isUploading>>
              /\ requests' = Settle(i)
              /\ lastEvent' = outcome.kind
              /\ offered' = <<>>
              /\ response' = Received(outcome, data)
              /\ UNCHANGED envVars
    /\ UNCHANGED <<appVars, abandoned, sessionStart, files, previewUrls, browserVars>>

PhotographerSimilarity_handleUploadSettled ==
    /\ Mounted = "similarity"
    /\ \E i \in Outstanding, outcome \in Outcomes :
          LET data == ResponseData(requests[i], outcome)
          IN  /\ CASE outcome.kind = "success" ->
                        /\ results' = <<data>>
                        /\ error' = Absent
                   [] outcome.kind = "failure" ->
                        /\ error' = Concat(FailurePrefix("similarity"),
                                           data.message)
                        /\ UNCHANGED results
                   [] OTHER ->
                        /\ error' = CaughtError(CatchPrefix("similarity"),
                                                outcome)
                        /\ UNCHANGED results
              /\ isUploading' = FALSE
              /\ requests' = Settle(i)
              /\ lastEvent' = outcome.kind
              /\ offered' = <<>>
              /\ response' = Received(outcome, data)
              /\ UNCHANGED envVars
    /\ UNCHANGED <<appVars, abandoned, sessionStart, files, previewUrls, browserVars>>

\* faulty variant of PhotographerSimilarity_resetUploadCall: resetUpload
\* revoking every object URL the component ever created, itself
PhotographerSimilarity_resetUploadCall_revokesAll ==
    /\ files' = <<>>
    /\ previewUrls' = <<>>
    /\ results' = Absent
    /\ error' = Absent
    /\ BrowserAfter(<<>>, [i \in 1..(nextUrl - sessionStart) |->
                              sessionStart + i - 1])
    /\ requests' = AfterReset
    /\ UNCHANGED <<appVars, abandoned, sessionStart, isUploading>>

\* resetUpload: the four setters; the re-render runs the effect cleanup
PhotographerSimilarity_resetUploadCall ==
    /\ files' = <<>>
    /\ previewUrls' = <<>>
    /\ results' = Absent
    /\ error' = Absent
    /\ BrowserAfter(<<>>, PhotographerSimilarity_cleanup)
    /\ requests' = AfterReset
    /\ UNCHANGED <<appVars, abandoned, sessionStart, isUploading>>

\* the reset button is inside the results block
PhotographerSimilarity_resetUpload ==
    /\ Mounted = "similarity"
    /\ results # Absent
    /\ PhotographerSimilarity_resetUploadCall
    /\ lastEvent' = "reset"
    /\ offered' = <<>>
    /\ response' = Absent
    /\ UNCHANGED envVars

\* resetUpload run once more, right after it ran
PhotographerSimilarity_resetUploadAgain ==
    /\ Mounted = "similarity"
    /\ lastEvent \in {"reset", "resetAgain"}
    /\ PhotographerSimilarity_resetUploadCall
    /\ lastEvent' = "resetAgain"
    /\ offered' = <<>>
    /\ response' = Absent
    /\ UNCHANGED envVars

\* ----------------------------------------------------------- CropSuggestion
\* CropSuggestion registers no effect: nothing revokes its preview URL
CropSuggestion_cleanup == <<>>

CropSuggestion_onDrop ==
    /\ Mounted = "crop"
    /\ \E drop \in Drops :
          LET acceptedFiles == AcceptedFiles("crop", drop)
          IN  /\ IF acceptedFiles # <<>>
                 THEN LET uploadedFile == <<acceptedFiles[1]>>
                          url == CreatedUrls(uploadedFile)
                      IN  /\ nextUrl + Len(url) - 1 <= MaxUrls
                          /\ files' = uploadedFile
                          /\ previewUrls' = url
                          /\ results' = Absent
                          /\ error' = Absent
                          /\ BrowserAfter(url, CropSuggestion_cleanup)
                          /\ requests' = AfterIntake
                          /\ UNCHANGED isUploading
                 ELSE UNCHANGED <<componentVars, browserVars, requests>>
              /\ lastEvent' = "onDrop"
              /\ offered' = drop
              /\ response' = Absent
              /\ UNCHANGED envVars
    /\ UNCHANGED <<appVars, abandoned, sessionStart>>

\* faulty variant of CropSuggestion_handleCropSuggestionCall: the handler
\* without `if (!file) return;`
CropSuggestion_handleCropSuggestionCall_noGuard ==
    /\ InFlight < MaxRequests
    /\ isUploading' = TRUE
    /\ requests' = Post(files)
    /\ UNCHANGED <<appVars, abandoned, sessionStart, files, previewUrls, results,
                   error, browserVars>>

\* handleCropSuggestion up to the await: `if (!file) return;`,
\* setIsProcessing(true), the post of the form data
CropSuggestion_handleCropSuggestionCall ==
    /\ IF files = <<>>
       THEN UNCHANGED <<isUploading, requests>>
       ELSE /\ InFlight < MaxRequests
            /\ isUploading' = TRUE
            /\ requests' = Post(<<files[1]>>)
    /\ UNCHANGED <<appVars, abandoned, sessionStart, files, previewUrls, results,
                   error, browserVars>>

\* a click on the process button, which is rendered while previewUrl is set
\* and disabled while isProcessing
CropSuggestion_handleCropSuggestion ==
    /\ Mounted = "crop"
    /\ previewUrls # <<>>
    /\ ~isUploading
    /\ CropSuggestion_handleCropSuggestionCall
    /\ lastEvent' = "handleUpload"
    /\ offered' = <<>>
    /\ response' = Absent
    /\ UNCHANGED envVars

\* handleCropSuggestion called while the process button is not rendered
CropSuggestion_handleCropSuggestionDirect ==
    /\ Mounted = "crop"
    /\ previewUrls = <<>>
    /\ CropSuggestion_handleCropSuggestionCall
    /\ lastEvent' = "handleUpload"
    /\ offered' = <<>>
    /\ response' = Absent
    /\ UNCHANGED envVars

CropSuggestion_processDisabled ==
    /\ Mounted = "crop"
    /\ previewUrls # <<>>
    /\ isUploading
    /\ lastEvent' = "uploadDisabled"
    /\ offered' = <<>>
    /\ response' = Absent
    /\ UNCHANGED envVars
    /\ UNCHANGED <<appVars, abandoned, sessionStart, componentVars, browserVars, requests>>

\* faulty variant of CropSuggestion_handleCropSuggestionSettled:
\* setCropResults(response.data) before the test of response.data.success
CropSuggestion_handleCropSuggestionSettled_storesAnyPayload ==
    /\ Mounted = "crop"
    /\ \E i \in Outstanding, outcome \in Outcomes :
          LET data == ResponseData(requests[i], outcome)
          IN  /\ CASE outcome.kind = "success" ->
                        /\ results' = <<data>>
                        /\ error' = Absent
                   [] outcome.kind = "failure" ->
                        /\ results' = <<data>>
                        /\ error' = Concat(FailurePrefix("crop"),
                                           data.message)
                   [] OTHER ->
                        /\ error' = CaughtError(CatchPrefix("crop"),
                                                outcome)
                        /\ UNCHANGED results
              /\ isUploading' = FALSE
              /\ requests' = Settle(i)
              /\ lastEvent' = outcome.kind
              /\ offered' = <<>>
              /\ response' = Received(outcome, data)
              /\ UNCHANGED envVars
    /\ UNCHANGED <<appVars, abandoned, sessionStart, files, previewUrls, browserVars>>

\* faulty variant of CropSuggestion_handleCropSuggestionSettled: the catch
\* block posts the form data again
CropSuggestion_handleCropSuggestionSettled_retries ==
    /\ Mounted = "crop"
    /\ \E i \in Outstanding, outcome \in Outcomes :
          LET data == ResponseData(requests[i], outcome)
          IN  /\ CASE outcome.kind = "success" ->
                        /\ results' = <<data>>
                        /\ error' = Absent
                        /\ isUploading' = FALSE
                        /\ requests' = Settle(i)
                   [] outcome.kind = "failure" ->
                        /\ error' = Concat(FailurePrefix("crop"),
                                           data.message)
                        /\ UNCHANGED results
                        /\ isUploading' = FALSE
                        /\ requests' = Settle(i)
                   [] OTHER ->
                        /\ error' = CaughtError(CatchPrefix("crop"),
                                                outcome)
                        /\ UNCHANGED <<results, isUploading>>
                        /\ requests' = Append(Settle(i), requests[i])
              /\ lastEvent' = outcome.kind
              /\ offered' = <<>>
              /\ response' = Received(outcome, data)
              /\ UNCHANGED envVars
    /\ UNCHANGED <<appVars, abandoned, sessionStart, files, previewUrls, browserVars>>

CropSuggestion_handleCropSuggestionSettled ==
    /\ Mounted = "crop"
    /\ \E i \in Outstanding, outcome \in Outcomes :
          LET data == ResponseData(requests[i], outcome)
          IN  /\ CASE outcome.kind = "success" ->
                        /\ results' = <<data>>
                        /\ error' = Absent
                   [] outcome.kind = "failure" ->
                        /\ error' = Concat(FailurePrefix("crop"),
                                           data.message)
                        /\ UNCHANGED results
                   [] OTHER ->
                        /\ error' = CaughtError(CatchPrefix("crop"),
                                                outcome)
                        /\ UNCHANGED results
              /\ isUploading' = FALSE
              /\ requests' = Settle(i)
              /\ lastEvent' = outcome.kind
              /\ offered' = <<>>
              /\ response' = Received(outcome, data)
              /\ UNCHANGED envVars
    /\ UNCHANGED <<appVars, abandoned, sessionStart, files, previewUrls, browserVars>>

\* ---------------------------------------------------------------------- App
\* the URLs the mounted component's effect cleanup revokes
MountedCleanup ==
    CASE Mounted = "analysis" -> ImageUploader_cleanup
      [] Mounted = "similarity" -> PhotographerSimilarity_cleanup
      [] Mounted = "crop" -> CropSuggestion_cleanup
      [] OTHER -> <<>>

\* App re-rendered with the given page and tab.  When that takes the mounted
\* component out of the tree React runs its effect cleanups and drops its
\* state; its requests stay in flight.
Render(page, tab) ==
    /\ currentPage' = page
    /\ activeTab' = tab
    /\ IF MountedAfter(page, tab) = Mounted
       THEN UNCHANGED <<componentVars, browserVars, sessionStart, requests,
                        abandoned>>
       ELSE /\ files' = <<>>
            /\ previewUrls' = <<>>
            /\ isUploading' = FALSE
            /\ results' = Absent
            /\ error' = Absent
            /\ BrowserAfter(<<>>, MountedCleanup)
            /\ sessionStart' = nextUrl
            /\ requests' = <<>>
            /\ abandoned' = abandoned + Len(requests)

\* the three tool cards of the home page
handleTabChange ==
    /\ currentPage = "home"
    /\ \E tab \in Tools : Render(currentPage, tab)
    /\ lastEvent' = "handleTabChange"
    /\ offered' = <<>>
    /\ response' = Absent
    /\ UNCHANGED envVars

\* Features offers 'home' and the three tools, About offers 'home' and
\* 'features'
handleNavigateToTool ==
    /\ \E tool \in (IF currentPage = "features" THEN Tools \cup {"home"}
                    ELSE IF currentPage = "about" THEN {"home", "features"}
                    ELSE {}) :
          IF tool = "home"
          THEN Render("home", "analysis")
          ELSE Render("home", tool)
    /\ lastEvent' = "handleNavigateToTool"
    /\ offered' = <<>>
    /\ response' = Absent
    /\ UNCHANGED envVars

handleFeaturesClick ==
    /\ currentPage = "home"
    /\ Render("features", activeTab)
    /\ lastEvent' = "handleFeaturesClick"
    /\ offered' = <<>>
    /\ response' = Absent
    /\ UNCHANGED envVars

handleAboutClick ==
    /\ currentPage = "home"
    /\ Render("about", activeTab)
    /\ lastEvent' = "handleAboutClick"
    /\ offered' = <<>>
    /\ response' = Absent
    /\ UNCHANGED envVars

\* ----------------------------------------------------------- results blocks
\* What the JSX of a results block makes of the payload in results.  Numbers
\* with a fraction are held in thousandths (0.873 is 873).  A field of a
\* payload is <<>> when the payload lacks it and <<v>> when it holds v.

\* similarity scores: every thousandth of [0, 1]
ScoreScale == 1000

\* the scores s for which the double s * 100 lies just below a half although
\* the decimal product is a half (0.145 * 100 is 14.499999999999998)
ProductBelowHalf == {145, 285, 565, 575}

\* faulty variant of MathRound100: Math.floor in place of Math.round
MathRound100_floor(k) == k \div 10

\* Math.round(score * 100) for the score k / 1000
MathRound100(k) ==
    IF k \in ProductBelowHalf THEN k \div 10 ELSE (k + 5) \div 10

\* the crop ratios a payload can hold
Ratios == {0, 5, 667, 1000, 1005, 1125, 1333, 1500, 1778, 2350, 12345}

\* the ratios whose double lies below the decimal half of a hundredth
\* (1.005 is 1.00499999999999989...)
DoubleBelowHalf == {1005}

\* faulty variant of ToFixed2: the number converted by String(), which prints
\* no trailing zero (here for ratios with one decimal digit)
ToFixed2_asString(r) == <<r \div 1000, (r % 1000) \div 100>>

\* Number.prototype.toFixed(2) of r / 1000: the digits before the point as a
\* number, then the two digits after it
ToFixed2(r) ==
    LET n == IF r \in DoubleBelowHalf THEN r \div 10 ELSE (r + 5) \div 10
    IN  <<n \div 100, (n % 100) \div 10, n % 10>>

\* index === 0 ? (gold medal) : index === 1 ? (silver) : (bronze), named
\* here by the rank each medal stands for
Medal(index) == IF index = 0 THEN "1st" ELSE IF index = 1 THEN "2nd" ELSE "3rd"

\* a render that threw (no error boundary: React removes the whole tree)
TypeError == [failed |-> TRUE, sections |-> <<>>]

Shown(sections) == [failed |-> FALSE, sections |-> sections]

\* {cond && (<section/>)}
When(cond, section) == IF cond THEN <<section>> ELSE <<>>

\* --- payloads of /analyze-image/
Feedbacks ==
    {Absent} \cup {<<[overall_assessment |-> o]>> : o \in {Absent, <<"balanced">>}}

AiFeedbacks ==
    {Absent} \cup {<<[success |-> b, feedback |-> f]>> :
                      b \in BOOLEAN, f \in Feedbacks}

AnalysisImages ==
    {Absent} \cup {<<[analysis_overlay |-> a, original |-> o]>> :
                      a \in {Absent, <<"data:overlay">>},
                      o \in {Absent, <<"data:original">>}}

AnalysisSummaries ==
    {Absent} \cup
    {<<[rule_of_thirds |-> r, leading_lines |-> l]>> :
        r \in {Absent} \cup {<<[follows_rule |-> TRUE,
                                distance_to_intersection |-> d]>> :
                                d \in {Absent, <<42>>}},
        l \in {Absent, <<[total_lines |-> 3]>>}}

AnalysisPayloads ==
    [success : {TRUE}, ai_feedback : AiFeedbacks, images : AnalysisImages,
     analysis_summary : AnalysisSummaries]

\* faulty variant of ImageUploader_resultsBlock: the AI feedback section
\* without its `analysisResults.ai_feedback &&` guard
ImageUploader_resultsBlock_unguarded(p) ==
    IF p.ai_feedback = Absent THEN TypeError
    ELSE Shown(<<"ai_feedback">>
               \o When(p.images # Absent, "images")
               \o When(p.analysis_summary # Absent, "analysis_summary"))

\* the block under {analysisResults && ...}: the sections it renders, named
\* by the field each is guarded by
ImageUploader_resultsBlock(p) ==
    Shown(When(p.ai_feedback # Absent, "ai_feedback")
          \o When(p.images # Absent, "images")
          \o When(p.analysis_summary # Absent, "analysis_summary"))

\* --- payloads of /find-similar-photographers/
\* the scores of the lists of more than one entry
ListScores == {873, 512, 305}

RECURSIVE SeqsUpTo(_, _)
SeqsUpTo(S, n) ==
    IF n = 0 THEN {<<>>}
    ELSE LET shorter == SeqsUpTo(S, n - 1)
         IN  shorter \cup {Append(t, x) : t \in shorter, x \in S}

Photographers(scores) ==
    [i \in DOMAIN scores |-> [similarity_score |-> scores[i]]]

PhotographerLists ==
    {Photographers(t) : t \in SeqsUpTo(ListScores, MaxEntries)}
    \cup {Photographers(<<k>>) : k \in 0..ScoreScale}

ProcessedFiles ==
    {Absent, <<<<>>>>,
     <<<<[filename |-> "a.png", size |-> Absent]>>>>,
     <<<<[filename |-> "a.png", size |-> <<<<800, 600>>>>]>>>>}

SimilarityPayloads ==
    [success : {TRUE},
     similar_photographers : {Absent} \cup {<<l>> : l \in PhotographerLists},
     processed_files : ProcessedFiles]

\* faulty variant of PhotographerRows: the rows in reverse payload order
PhotographerRows_reversed(list) ==
    [i \in DOMAIN list |->
        [medal |-> Medal(i - 1),
         percent |-> MathRound100(list[Len(list) + 1 - i].similarity_score),
         bar |-> list[Len(list) + 1 - i].similarity_score]]

\* one row per element of similar_photographers.map((photographer, index) =>
\* ...): the medal, the percentage text and the width of the bar (in tenths
\* of a percent)
PhotographerRows(list) ==
    [i \in DOMAIN list |->
        [medal |-> Medal(i - 1),
         percent |-> MathRound100(list[i].similarity_score),
         bar |-> list[i].similarity_score]]

\* the block under {similarityResults && ...}: similar_photographers.map
\* and file.size[0] are read without a guard
PhotographerSimilarity_resultsBlock(p) ==
    IF p.similar_photographers = Absent THEN TypeError
    ELSE IF /\ p.processed_files # Absent
            /\ \E i \in DOMAIN p.processed_files[1] :
                  p.processed_files[1][i].size = Absent
    THEN TypeError
    ELSE [failed |-> FALSE,
          sections |-> <<"similar_photographers">>
                       \o When(p.processed_files # Absent, "processed_files"),
          rows |-> PhotographerRows(p.similar_photographers[1])]

\* --- payloads of /suggest-crop/
CropPayloads ==
    [success : {TRUE},
     processing_info : {Absent} \cup {<<[subject_detected |-> b]>> :
                                         b \in BOOLEAN},
     subject_center : {Absent, <<<<120, 80>>>>},
     crop_ratio : {Absent} \cup {<<r>> : r \in Ratios},
     images : {Absent, <<[original |-> "data:original",
                          cropped |-> "data:cropped"]>>}]

\* the block under {cropResults && ...}: processing_info.subject_detected,
\* subject_center[0], crop_ratio.toFixed and images.original are read without
\* a guard
CropSuggestion_resultsBlock(p) ==
    IF p.processing_info = Absent THEN TypeError
    ELSE IF p.processing_info[1].subject_detected /\ p.subject_center = Absent
    THEN TypeError
    ELSE IF p.crop_ratio = Absent THEN TypeError
    ELSE IF p.images = Absent THEN TypeError
    ELSE [failed |-> FALSE,
          sections |-> <<"processing_info", "crop_ratio", "images">>,
          ratio |-> [digits |-> ToFixed2(p.crop_ratio[1]),
                     then |-> <<":1", " (Width:Height)">>]]

\* the payloads the service of a tool can answer with
Payloads(tool) ==
    CASE tool = "analysis" -> AnalysisPayloads
      [] tool = "similarity" -> SimilarityPayloads
      [] OTHER -> CropPayloads

\* the fields of a payload a section of the results block is made from
SectionFields(tool) ==
    CASE tool = "analysis" -> {"ai_feedback", "images", "analysis_summary"}
      [] tool = "similarity" -> {"similar_photographers", "processed_files"}
      [] OTHER -> {"processing_info", "crop_ratio", "images"}

\* React renders the results block of the mounted component
ImageUploader_render ==
    /\ Mounted = "analysis"
    /\ results # Absent
    /\ rendered = Absent
    /\ rendered' = <<ImageUploader_resultsBlock(results[1])>>
    /\ lastEvent' = "render"
    /\ UNCHANGED <<appVars, componentVars, browserVars, sessionStart, requests,
                   abandoned, offered, response, apiUrl>>

PhotographerSimilarity_render ==
    /\ Mounted = "similarity"
    /\ results # Absent
    /\ rendered = Absent
    /\ rendered' = <<PhotographerSimilarity_resultsBlock(results[1])>>
    /\ lastEvent' = "render"
    /\ UNCHANGED <<appVars, componentVars, browserVars, sessionStart, requests,
                   abandoned, offered, response, apiUrl>>

CropSuggestion_render ==
    /\ Mounted = "crop"
    /\ results # Absent
    /\ rendered = Absent
    /\ rendered' = <<CropSuggestion_resultsBlock(results[1])>>
    /\ lastEvent' = "render"
    /\ UNCHANGED <<appVars, componentVars, browserVars, sessionStart, requests,
                   abandoned, offered, response, apiUrl>>

\* ------------------------------------------------------------ specification
\* the state after the first render, whatever the build
Mount ==
    /\ currentPage = "home"
    /\ activeTab = "analysis"
    /\ files = <<>>
    /\ previewUrls = <<>>
    /\ isUploading = FALSE
    /\ results = Absent
    /\ error = Absent
    /\ nextUrl = 1
    /\ liveUrls = {}
    /\ revokes = [u \in 1..MaxUrls |-> 0]
    /\ sessionStart = 1
    /\ requests = <<>>
    /\ abandoned = 0
    /\ lastEvent = "mount"
    /\ offered = <<>>
    /\ response = Absent
    /\ rendered = Absent

\* a build with VITE_API_URL not set
Init ==
    /\ Mount
    /\ apiUrl = Null

Next ==
    \/ ImageUploader_onDrop
    \/ ImageUploader_handleUpload
    \/ ImageUploader_uploadDisabled
    \/ ImageUploader_handleUploadSettled
    \/ ImageUploader_reset
    \/ PhotographerSimilarity_onDrop
    \/ PhotographerSimilarity_handleUpload
    \/ PhotographerSimilarity_uploadDisabled
    \/ PhotographerSimilarity_handleUploadSettled
    \/ PhotographerSimilarity_resetUpload
    \/ CropSuggestion_onDrop
    \/ CropSuggestion_handleCropSuggestion
    \/ CropSuggestion_processDisabled
    \/ CropSuggestion_handleCropSuggestionSettled
    \/ handleTabChange
    \/ handleNavigateToTool
    \/ handleFeaturesClick
    \/ handleAboutClick
    \/ abandonedSettled

Spec == Init /\ [][Next]_vars

\* the events of Next, and the handlers run where the page offers no element
\* to run them: the submit handlers with nothing selected, the reset handlers
\* twice in a row
HandlerNext ==
    \/ Next
    \/ ImageUploader_handleUploadDirect
    \/ PhotographerSimilarity_handleUploadDirect
    \/ CropSuggestion_handleCropSuggestionDirect
    \/ ImageUploader_resetAgain
    \/ PhotographerSimilarity_resetUploadAgain

HandlerSpec == Init /\ [][HandlerNext]_vars

\* the same events in any build
EnvInit ==
    /\ Mount
    /\ apiUrl \in ApiUrls

EnvSpec == EnvInit /\ [][Next]_vars

\* a component that has just stored the payload of a successful response, for
\* every payload its service can answer with, and the render that follows
ViewInit ==
    /\ currentPage = "home"
    /\ activeTab \in Tools
    /\ files = <<1>>
    /\ previewUrls = <<1>>
    /\ isUploading = FALSE
    /\ results \in {<<p>> : p \in Payloads(activeTab)}
    /\ error = Absent
    /\ nextUrl = 2
    /\ liveUrls = {1}
    /\ revokes = [u \in 1..MaxUrls |-> 0]
    /\ sessionStart = 1
    /\ requests = <<>>
    /\ abandoned = 0
    /\ lastEvent = "success"
    /\ offered = <<>>
    /\ response = Absent
    /\ apiUrl = Null
    /\ rendered = Absent

ViewNext ==
    \/ ImageUploader_render
    \/ PhotographerSimilarity_render
    \/ CropSuggestion_render

ViewSpec == ViewInit /\ [][ViewNext]_vars

\* ------------------------------------------------------------------ claims
\* request i of the mounted component comes back in this step
Returns(i) ==
    /\ i \in DOMAIN requests
    /\ lastEvent' \in SettledEvents
    /\ requests' = Settle(i)

Fresh ==
    /\ files = <<>>
    /\ previewUrls = <<>>
    /\ results = Absent
    /\ error = Absent
    /\ Status = "idle"

\* C1: when reset ran while a request was outstanding, the step in which that
\* request comes back (with success or with a failure) leaves results absent,
\* error absent and the status idle.
C1_ResetDiscardsLateResponse ==
    [][\A i \in DOMAIN requests :
          (requests[i].reset /\ Returns(i))
              => (results' = Absent /\ error' = Absent /\ Status' = "idle")]_vars

\* C2: when onDrop accepted new files while a request was outstanding, the
\* step in which that request comes back sets neither results nor error.
C2_IntakeDiscardsLateResponse ==
    [][\A i \in DOMAIN requests :
          (requests[i].replaced /\ Returns(i))
              => (results' = results /\ error' = error)]_vars

\* C3: the mounted component never has more than one request outstanding, and
\* a click on the upload button while isUploading changes neither the
\* component's state nor the requests in flight.
C3_SingleOutstandingCall ==
    [][/\ Len(requests') <= 1
       /\ (isUploading /\ lastEvent' \in SubmitEvents)
             => UNCHANGED <<componentVars, requests, abandoned>>]_vars

\* C3 witness: the button was clicked while a request was outstanding
C3_Witness ==
    /\ lastEvent = "uploadDisabled"
    /\ isUploading
    /\ Len(requests) = 1

\* C4: right after a reset handler has run, the component is in its
\* fresh-mount state -- no files, no previews, no results, no error, status
\* idle -- and none of its object URLs is live.
C4_ResetRestoresInitialState ==
    lastEvent = "reset" => (Fresh /\ SessionLive = {})

\* C5: results and error are never both present; right after a request came
\* back with success, results is present and error absent; right after one
\* failed (reported by the service, or in transport) error is present and
\* results absent.
C5_ResultErrorExclusive ==
    /\ ~(results # Absent /\ error # Absent)
    /\ lastEvent = "success" => (results # Absent /\ error = Absent)
    /\ lastEvent \in (SettledEvents \ {"success"})
          => (error # Absent /\ results = Absent)

\* C6: the number of object URLs the mounted component created and has not
\* revoked equals the number of files it has selected.
C6_LiveHandlesMatchFiles == Cardinality(SessionLive) = Len(files)

\* C7: of the object URLs the mounted component created, none was revoked
\* twice, and exactly those it no longer shows (their selection was replaced
\* or cleared) were revoked.
C7_HandlesReleasedOnce ==
    \A u \in sessionStart..(nextUrl - 1) :
        /\ revokes[u] <= 1
        /\ (u \in Range(previewUrls)) <=> (revokes[u] = 0)

\* C8: a step that unmounts the mounted component leaves none of the object
\* URLs it showed live, and the component variables hold the initial state
\* for the next mount.
C8_UnmountReleasesAndForgets ==
    [][Mounted' # Mounted
         => /\ Range(previewUrls) \cap liveUrls' = {}
            /\ Fresh']_vars

\* C9: while the status is uploading, files is not empty and is the list the
\* outstanding request carries.
C9_FilesFixedWhileUploading ==
    Status = "uploading"
        => /\ files # <<>>
           /\ \A i \in DOMAIN requests : requests[i].files = files

\* C10: a click on the enabled upload button with files selected sets the
\* status to uploading and posts exactly one request, which carries the
\* selected files, each once and in selection order.
C10_SubmitPostsSelection ==
    [][(lastEvent' = "handleUpload" /\ files # <<>> /\ Status # "uploading")
         => /\ Status' = "uploading"
            /\ Len(requests') + abandoned' = InFlight + 1
            /\ requests' = Append(requests, requests'[Len(requests')])
            /\ requests'[Len(requests')].files = files]_vars

\* C10 witness: the similarity tool posted a selection of two files
C10_Witness ==
    /\ Mounted = "similarity"
    /\ lastEvent = "handleUpload"
    /\ Len(files) = 2
    /\ Len(requests) = 1
    /\ requests[1].files = files

\* C11: a submit handler that runs while no file is selected posts no request
\* and leaves isUploading (so the status), results, error and the selection
\* as they were, in each of the three components.
C11_SubmitWithoutFilesIsNoOp ==
    [][(lastEvent' = "handleUpload" /\ files = <<>>)
         => /\ UNCHANGED <<requests, abandoned, componentVars>>
            /\ Status' = Status]_vars

\* C11 witness: handleCropSuggestion ran with no file selected
C11_Witness ==
    /\ Mounted = "crop"
    /\ lastEvent = "handleUpload"
    /\ files = <<>>
    /\ requests = <<>>

\* C12: right after a request came back with success: true, results is
\* exactly the response.data it came back with, error is absent and the
\* status is succeeded (so no longer uploading).
C12_SuccessStoresPayload ==
    lastEvent = "success"
        => /\ response[1].data[1].success = TRUE
           /\ results = response[1].data
           /\ error = Absent
           /\ Status = "succeeded"

\* C12 witness: ImageUploader stored the payload of its request
C12_Witness ==
    /\ Mounted = "analysis"
    /\ lastEvent = "success"
    /\ results # Absent
    /\ results[1].processed_files = files
    /\ files # <<>>

\* C13: right after a request came back with success: false, the status is
\* failed, error is the component's failure text followed by the payload's
\* message, and no transport or server failure -- whatever text it carries --
\* would have left the same error.
C13_FailureKindsDistinguishable ==
    lastEvent = "failure"
        => /\ Status = "failed"
           /\ error[1][1] = FailurePrefix(Mounted)
           /\ error[1][2] = (IF response[1].outcome.message = Null
                             THEN "undefined"
                             ELSE response[1].outcome.message)
           /\ \A o \in Outcomes :
                 o.kind \in {"rejected", "malformed"}
                     => error # CaughtError(CatchPrefix(Mounted), o)

\* C14: right after a request failed in transport or at the server, the
\* status is failed and error is the component's catch text followed by the
\* server's detail when the failure carries a detail text, and by the
\* transport error's message otherwise.
C14_TransportErrorFromDetail ==
    lastEvent \in {"rejected", "malformed"}
        => /\ Status = "failed"
           /\ LET o == response[1].outcome
              IN  error = <<<<CatchPrefix(Mounted),
                              IF o.detail \notin {Null, ""} THEN o.detail
                              ELSE o.message>>>>

\* C14 witness: a failure that carried a detail text, shown in error
C14_Witness ==
    /\ lastEvent = "rejected"
    /\ response[1].outcome.detail = "unreadable image"
    /\ error # Absent
    /\ error[1][2] = "unreadable image"

\* C15: right after a drop of which files were accepted, the status is idle,
\* results and error are absent, and previewUrls holds the object URLs
\* created last, one per selected file, all of them live.
C15_AcceptanceStartsIdle ==
    (lastEvent = "onDrop" /\ AcceptedFiles(Mounted, offered) # <<>>)
        => /\ Status = "idle"
           /\ results = Absent
           /\ error = Absent
           /\ previewUrls =
                 [i \in 1..Len(files) |-> nextUrl - Len(files) + i - 1]
           /\ Range(previewUrls) \subseteq liveUrls

\* C16: right after a drop that offered more files matching the accept option
\* than the component keeps (1, or 4 in the similarity tool), files is the
\* first 1 (4) of the matching files in the order offered, and error is
\* absent.
C16_ExcessIsTruncated ==
    LET matched == SelectSeq(offered, LAMBDA f : Accepts(Mounted, f))
    IN  (lastEvent = "onDrop" /\ Len(matched) > MaxFilesOf(Mounted))
            => /\ files = SubSeq(matched, 1, MaxFilesOf(Mounted))
               /\ error = Absent

\* C17: right after a drop of which files were accepted, files is exactly the
\* accepted batch -- one file in ImageUploader and CropSuggestion, at most
\* four in PhotographerSimilarity -- whatever was selected before.
C17_IntakeReplaces ==
    (lastEvent = "onDrop" /\ AcceptedFiles(Mounted, offered) # <<>>)
        => /\ files = Slice(AcceptedFiles(Mounted, offered), MaxFilesOf(Mounted))
           /\ Len(files) <= MaxFilesOf(Mounted)

\* C17 witness: a second selection of two files in PhotographerSimilarity
C17_Witness ==
    /\ Mounted = "similarity"
    /\ lastEvent = "onDrop"
    /\ Len(files) = 2
    /\ files = offered
    /\ previewUrls[1] > sessionStart

C19_ResetAlwaysAvailable ==
    Mounted \in Tools
        => ENABLED (ImageUploader_reset \/ PhotographerSimilarity_resetUpload)

\* C20: a reset handler run right after it ran changes nothing: the component
\* state stays as the first run left it and no object URL is revoked.
C20_ResetIdempotent ==
    [][lastEvent' = "resetAgain"
         => UNCHANGED <<componentVars, browserVars, requests, abandoned>>]_vars

\* C20 witness: resetUpload ran twice after a selection whose preview it
\* released
C20_Witness ==
    /\ Mounted = "similarity"
    /\ lastEvent = "resetAgain"
    /\ files = <<>>
    /\ \E u \in sessionStart..(nextUrl - 1) : revokes[u] = 1

\* C21: the step in which a request comes back failed (reported by the
\* service, or in transport) leaves files and previewUrls as they were and
\* the status other than uploading, and in the state it leads to a tool is
\* mounted (its dropzone takes a new drop) and the upload button is rendered
\* and enabled with files to post.
C21_UsableAfterFailure ==
    [][\A i \in DOMAIN requests :
          (Returns(i) /\ lastEvent' \in (SettledEvents \ {"success"}))
              => /\ files' = files
                 /\ previewUrls' = previewUrls
                 /\ Status' # "uploading"
                 /\ Mounted' \in Tools
                 /\ SubmitEnabled']_vars

\* C22: the number of requests in flight grows only in a click on the enabled
\* upload button with files selected, and then by exactly one; a step in which
\* a request comes back -- failed or not -- lowers it by one and posts
\* nothing; no other step changes it.
C22_NoAutomaticRetry ==
    [][/\ (lastEvent' = "handleUpload" /\ files # <<>> /\ ~isUploading)
             => InFlight' = InFlight + 1
       /\ InFlight' > InFlight
             => (lastEvent' = "handleUpload" /\ files # <<>> /\ ~isUploading)
       /\ lastEvent' \in (SettledEvents \cup {"abandonedSettled"})
             => InFlight' = InFlight - 1
       /\ lastEvent' \in SettledEvents
             => \E i \in DOMAIN requests : requests' = Settle(i)]_vars

\* C22 witness: a request of CropSuggestion failed in transport and nothing
\* is in flight afterwards
C22_Witness ==
    /\ Mounted = "crop"
    /\ lastEvent = "rejected"
    /\ InFlight = 0
    /\ files # <<>>

\* C23: a response to a request of a component that is no longer mounted
\* changes nothing of the mounted component or of the browser's URLs; a
\* component that gets mounted starts from the initial state, whatever the
\* component mounted before held; and the mounted component never shows an
\* object URL that an earlier component created.
C23_SessionsIndependent ==
    [][/\ lastEvent' = "abandonedSettled"
             => UNCHANGED <<componentVars, browserVars, requests>>
       /\ Mounted' # Mounted => Fresh'
       /\ \A u \in Range(previewUrls') : u >= sessionStart']_vars

\* C23 witness: the response to a request of an unmounted component arrived
\* while the mounted one had a selection and a request of its own
C23_Witness ==
    /\ lastEvent = "abandonedSettled"
    /\ files # <<>>
    /\ Len(requests) = 1
    /\ sessionStart > 1

\* C30: previewUrls is as long as files, and its elements are the object URLs
\* created last, in the order of their creation, which is the order of the
\* files: previewUrls[i] was created for files[i].
C30_PreviewsAlignedWithFiles ==
    /\ Len(previewUrls) = Len(files)
    /\ previewUrls = [i \in 1..Len(files) |-> nextUrl - Len(files) + i - 1]

\* C30 witness: two files selected in PhotographerSimilarity after an earlier
\* selection
C30_Witness ==
    /\ Mounted = "similarity"
    /\ Len(files) = 2
    /\ previewUrls = <<2, 3>>

\* C29: every request in flight was posted to the address VITE_API_URL
\* configures when the build configures one, and to the local development
\* address when it configures none.
C29_RequestsGoToConfiguredAddress ==
    \A i \in DOMAIN requests :
        requests[i].url[1] =
            (IF apiUrl \notin {Null, ""} THEN apiUrl ELSE LocalAddress)

\* C24: whatever fields the stored payload lacks, rendering the results block
\* does not throw, and the block shows exactly the sections whose field the
\* payload holds.
C24_ProjectionOmitsAbsentSections ==
    rendered # Absent
        => /\ ~rendered[1].failed
           /\ \A f \in SectionFields(Mounted) :
                 (f \in Range(rendered[1].sections)) <=> (results[1][f] # Absent)

\* C25: for an analysis payload without ai_feedback the results block renders
\* without throwing, shows no AI feedback section, and shows the images
\* section and the technical summary section exactly when the payload holds
\* images and analysis_summary.
C25_AnalysisWithoutAiFeedback ==
    (Mounted = "analysis" /\ rendered # Absent /\ results[1].ai_feedback = Absent)
        => /\ ~rendered[1].failed
           /\ "ai_feedback" \notin Range(rendered[1].sections)
           /\ ("images" \in Range(rendered[1].sections))
                 <=> (results[1].images # Absent)
           /\ ("analysis_summary" \in Range(rendered[1].sections))
                 <=> (results[1].analysis_summary # Absent)

\* C25 witness: a payload with images and summary but no ai_feedback, rendered
C25_Witness ==
    /\ Mounted = "analysis"
    /\ rendered # Absent
    /\ results[1].ai_feedback = Absent
    /\ rendered[1].sections = <<"images", "analysis_summary">>

\* C26: every row of a rendered similarity result shows a whole percentage
\* that is a nearest integer to 100 times the score of its entry (scores in
\* thousandths: the percentage times 10 is within 5 of the score), and the
\* scores 0.873, 0.512, 0.305 show as 87, 51, 31 in that order.
C26_ScoresAsWholePercent ==
    (Mounted = "similarity" /\ rendered # Absent /\ ~rendered[1].failed)
        => LET list == results[1].similar_photographers[1]
               rows == rendered[1].rows
           IN  /\ \A i \in DOMAIN list :
                     LET k == list[i].similarity_score
                         pct == rows[i].percent
                     IN  /\ pct \in 0..100
                         /\ 10 * pct - k <= 5
                         /\ k - 10 * pct <= 5
               /\ list = Photographers(<<873, 512, 305>>)
                     => [i \in 1..3 |-> rows[i].percent] = <<87, 51, 31>>

\* C26 witness: the scores 0.873, 0.512, 0.305 rendered
C26_Witness ==
    /\ Mounted = "similarity"
    /\ rendered # Absent
    /\ ~rendered[1].failed
    /\ results[1].similar_photographers[1] = Photographers(<<873, 512, 305>>)
    /\ rendered[1].rows[3].percent = 31

\* C27: a rendered similarity result has one row per entry of the payload
\* list, row i made from entry i (the list is not sorted), and rows 1, 2, 3
\* carry the medals for 1st, 2nd and 3rd.
C27_RowsInPayloadOrder ==
    (Mounted = "similarity" /\ rendered # Absent /\ ~rendered[1].failed)
        => LET list == results[1].similar_photographers[1]
               rows == rendered[1].rows
           IN  /\ Len(rows) = Len(list)
               /\ \A i \in DOMAIN list : rows[i].bar = list[i].similarity_score
               /\ \A i \in DOMAIN rows :
                     /\ i = 1 => rows[i].medal = "1st"
                     /\ i = 2 => rows[i].medal = "2nd"
                     /\ i = 3 => rows[i].medal = "3rd"

\* C27 witness: a list whose scores ascend was rendered in that order
C27_Witness ==
    /\ Mounted = "similarity"
    /\ rendered # Absent
    /\ ~rendered[1].failed
    /\ results[1].similar_photographers[1] = Photographers(<<305, 512, 873>>)
    /\ rendered[1].rows[1].bar = 305
    /\ rendered[1].rows[3].medal = "3rd"

\* C28: the crop ratio of a rendered crop result is shown as its whole part
\* and exactly two decimal digits, a nearest hundredth of the ratio, followed
\* by ":1"; the ratio 1.5 shows as 1.50:1.
C28_RatioWithTwoDecimals ==
    (Mounted = "crop" /\ rendered # Absent /\ ~rendered[1].failed)
        => LET r == results[1].crop_ratio[1]
               d == rendered[1].ratio.digits
           IN  /\ Len(d) = 3
               /\ d[1] >= 0
               /\ d[2] \in 0..9
               /\ d[3] \in 0..9
               /\ 10 * (100 * d[1] + 10 * d[2] + d[3]) - r <= 5
               /\ r - 10 * (100 * d[1] + 10 * d[2] + d[3]) <= 5
               /\ rendered[1].ratio.then[1] = ":1"
               /\ r = 1500 => d = <<1, 5, 0>>

\* C28 witness: the ratio 1.5 rendered
C28_Witness ==
    /\ Mounted = "crop"
    /\ rendered # Absent
    /\ ~rendered[1].failed
    /\ results[1].crop_ratio = <<1500>>
    /\ rendered[1].ratio.digits = <<1, 5, 0>>

\* C31: the status of the mounted component is uploading exactly while a
\* request of it has not come back: with a request outstanding isUploading
\* holds, with none it does not, and the step in which the request comes back
\* -- with success: true, with success: false, or failed in transport -- ends
\* with a status other than uploading.
C31_UploadingUntilCompletion ==
    /\ isUploading <=> requests # <<>>
    /\ lastEvent \in SettledEvents => Status # "uploading"

\* C31 witness: a request of PhotographerSimilarity failed in transport and
\* the button is back from its busy label
C31_Witness ==
    /\ Mounted = "similarity"
    /\ lastEvent = "rejected"
    /\ files # <<>>
    /\ Status = "failed"

\* C32: a click on the upload / process button that posts a request changes
\* the status to uploading and nothing else of the component: files,
\* previewUrls, results and error are what they were before the click, so a
\* result or an error of an earlier submission is still stored while the new
\* request is outstanding.
C32_SubmitChangesOnlyStatus ==
    [][(lastEvent' = "handleUpload" /\ InFlight' > InFlight)
          => /\ UNCHANGED <<files, previewUrls, results, error>>
             /\ Status' = "uploading"]_vars

\* C32 witness: ImageUploader posted a second request while the result of the
\* first one is stored
C32_Witness ==
    /\ Mounted = "analysis"
    /\ lastEvent = "handleUpload"
    /\ Len(requests) = 1
    /\ results # Absent
    /\ Status = "uploading"

\* C33: a drop of which the dropzone of the mounted component accepts no file
\* leaves files, previewUrls, results, error and the status as they were, in
\* ImageUploader, CropSuggestion and PhotographerSimilarity alike.
C33_EmptyIntakeChangesNothing ==
    [][(lastEvent' = "onDrop" /\ AcceptedFiles(Mounted, offered') = <<>>)
          => /\ UNCHANGED <<files, previewUrls, results, error>>
             /\ Status' = Status]_vars

\* C34: whatever is stored in results is a response.data whose success flag
\* is true; a response.data with success: false and a request that failed in
\* transport are never stored there.
C34_StoredResultIsSuccess ==
    results # Absent => results[1].success = TRUE

\* C34 witness: the service answered success: false to a second request
\* while the payload of the first, successful one is stored
C34_Witness ==
    /\ lastEvent = "failure"
    /\ response[1].data[1].success = FALSE
    /\ results # Absent
    /\ results[1].success = TRUE

\* C35: in the rows rendered from similar_photographers no two rows carry the
\* same ordinal decoration, and a row at position 4 or later carries none of
\* 1st, 2nd, 3rd.
C35_OrdinalsGivenOnce ==
    (Mounted = "similarity" /\ rendered # Absent /\ ~rendered[1].failed)
        => LET rows == rendered[1].rows
           IN  /\ \A i, j \in DOMAIN rows :
                     rows[i].medal = rows[j].medal => i = j
               /\ \A i \in DOMAIN rows :
                     i >= 4 => rows[i].medal \notin {"1st", "2nd", "3rd"}

\* C36: activeTab always names one of the three tools, so that a tool
\* component is mounted whenever the home page is shown.
C36_ActiveTabIsATool ==
    /\ activeTab \in Tools
    /\ currentPage = "home" => Mounted \in Tools

====
